---- MODULE Spec2Model ----
(***************************************************************************)
(* iqair_exporter: the Exporter collector of iqair_exporter.go.            *)
(*                                                                         *)
(* Callers (the goroutines of the metrics-exposition layer) invoke         *)
(* Collect() on one Exporter.  Collect takes e.mutex, runs scrape() (one   *)
(* http.Get, io.ReadAll, json.Unmarshal), publishes eight metrics on the   *)
(* channel and releases the mutex through its deferred Unlock.  The        *)
(* upstream device is the environment: it answers a GET with any response  *)
(* of Responses, or never answers.                                         *)
(***************************************************************************)
EXTENDS Integers, Sequences, FiniteSets, TLC

(* ------------------------------ bounds --------------------------------- *)

\* number of goroutines that may call Collect concurrently
NumCallers == 2

\* total number of Collect() invocations in a behaviour
MaxCollects == 3

Callers == 1 .. NumCallers

(* ------------------------------ numbers -------------------------------- *)
\* A number is a record [k, v]:
\*   k = "int"  : the integer v (a magnitude below 2^53)
\*   k = "frac" : the decimal literal v/10, v not a multiple of 10
\*   k = "big"  : the integer 2^53 + v
\*   k = "over" : the integer 2^63 (outside the range of a 64-bit Go int)

Int0(n) == [k |-> "int", v |-> n]
Frac(n) == [k |-> "frac", v |-> n]
Big(n) == [k |-> "big", v |-> n]
Over == [k |-> "over", v |-> 0]

Zero == Int0(0)

\* float64(x) of a Go int x: exact below 2^53; above it the 53-bit mantissa
\* keeps only even integers, ties going to the even mantissa.
Float64OfInt(x) ==
    IF x.k = "big" /\ x.v % 2 = 1
    THEN IF ((x.v - 1) \div 2) % 2 = 0 THEN Big(x.v - 1) ELSE Big(x.v + 1)
    ELSE x

(* ------------------------------- JSON ---------------------------------- *)
\* A JSON value under a key of `current`: a number, or one of the markers
Absent == [k |-> "absent", v |-> 0]
Null == [k |-> "null", v |-> 0]
Str == [k |-> "str", v |-> 0]

\* The zero value of APIData (a freshly declared `var parsed APIResponse`).
ZeroAPIData ==
    [CO2 |-> Zero, P25 |-> Zero, P10 |-> Zero, Temperature |-> Zero, Humidity |-> Zero]

\* encoding/json storing JSON value j into an `int` field holding old:
\* [err, val].  A missing key or null leaves the field; a number literal must
\* parse as a 64-bit integer; anything else is an UnmarshalTypeError.
StoreInt(j, old) ==
    CASE j.k \in {"absent", "null"} -> [err |-> FALSE, val |-> old]
      [] j.k \in {"int", "big"} -> [err |-> FALSE, val |-> j]
      [] OTHER -> [err |-> TRUE, val |-> old]

\* encoding/json storing JSON value j into a `float64` field holding old.
StoreFloat(j, old) ==
    CASE j.k \in {"absent", "null"} -> [err |-> FALSE, val |-> old]
      [] j.k \in {"int", "frac", "over"} -> [err |-> FALSE, val |-> j]
      [] j.k = "big" -> [err |-> FALSE, val |-> Float64OfInt(j)]
      [] OTHER -> [err |-> TRUE, val |-> old]

\* A decoder whose struct tags for P25 and P10 are exchanged.
DecodeAPIDataSwappedTags(o) ==
    LET co == StoreInt(o.co, Zero)
        p2 == StoreInt(o.p1, Zero)
        p1 == StoreInt(o.p2, Zero)
        tp == StoreFloat(o.tp, Zero)
        hm == StoreInt(o.hm, Zero)
    IN  [err |-> co.err \/ p2.err \/ p1.err \/ tp.err \/ hm.err,
         val |-> [CO2 |-> co.val, P25 |-> p2.val, P10 |-> p1.val,
                  Temperature |-> tp.val, Humidity |-> hm.val]]

\* Decoding the JSON object o (keys co, p2, p1, tp, hm) into APIData by the
\* struct tags.
DecodeAPIData(o) ==
    LET co == StoreInt(o.co, Zero)
        p2 == StoreInt(o.p2, Zero)
        p1 == StoreInt(o.p1, Zero)
        tp == StoreFloat(o.tp, Zero)
        hm == StoreInt(o.hm, Zero)
    IN  [err |-> co.err \/ p2.err \/ p1.err \/ tp.err \/ hm.err,
         val |-> [CO2 |-> co.val, P25 |-> p2.val, P10 |-> p1.val,
                  Temperature |-> tp.val, Humidity |-> hm.val]]

\* Decoding the value cur of key `current` into APIResponse.Current.
DecodeCurrent(cur) ==
    CASE cur.k \in {"absent", "null"} -> [err |-> FALSE, val |-> ZeroAPIData]
      [] cur.k = "object" -> DecodeAPIData(cur)
      [] OTHER -> [err |-> TRUE, val |-> ZeroAPIData]

\* json.Unmarshal(body, &parsed): [err, val] with val the APIData left in
\* parsed.Current.  Text that is not JSON is a syntax error; JSON null stores
\* nothing; any other non-object is an UnmarshalTypeError.
Unmarshal(body) ==
    CASE body.kind = "object" -> DecodeCurrent(body.current)
      [] body.kind = "null" -> [err |-> FALSE, val |-> ZeroAPIData]
      [] OTHER -> [err |-> TRUE, val |-> ZeroAPIData]

(* --------------------------- upstream inputs --------------------------- *)

CurrentObjects ==
    [k : {"object"}, v : {0},
     co : {Absent, Int0(410), Frac(4105)},
     p2 : {Null, Int0(5), Big(1)},
     p1 : {Absent, Int0(12)},
     tp : {Absent, Frac(215), Str},
     hm : {Int0(40), Over}]
    \cup
    [k : {"object"}, v : {0},
     co : {Absent}, p2 : {Absent}, p1 : {Absent}, tp : {Absent, Int0(21)}, hm : {Absent}]

Bodies ==
    {[kind |-> "invalid", current |-> Absent],
     [kind |-> "null", current |-> Absent],
     [kind |-> "array", current |-> Absent]}
    \cup
    [kind : {"object"}, current : CurrentObjects \cup {Absent, Null, Int0(7)}]

\* What http.Get and io.ReadAll can yield: a transport error, a response whose
\* body cannot be read, or a response with a status code and a body.
Responses ==
    {[kind |-> "err", status |-> 0, readErr |-> FALSE,
      body |-> [kind |-> "invalid", current |-> Absent]],
     [kind |-> "resp", status |-> 200, readErr |-> TRUE,
      body |-> [kind |-> "invalid", current |-> Absent]]}
    \cup
    [kind : {"resp"}, status : {200, 503}, readErr : {FALSE}, body : Bodies]

NoResp == [kind |-> "none"]

\* The upstream holds the connection open and will never answer.
Silent == [kind |-> "silent"]

\* The nil *APIData.
Nil == [k |-> "nil"]

(* ------------------------------ metrics -------------------------------- *)

\* The fully-qualified names of the descriptors (BuildFQName / CounterOpts).
iqAirUp == "iqair_up"
iqAirCO2 == "iqair_co2"
iqAirP25 == "iqair_p25"
iqAirP10 == "iqair_p10"
iqAirTemp == "iqair_temperature"
iqAirHumidity == "iqair_humidity"
totalScrapesDesc == "iqair_exporter_scrapes_total"
jsonParseFailuresDesc == "iqair_exporter_json_parse_failures_total"

Metric(name, value) == [name |-> name, value |-> value]

(* ------------------------------- state --------------------------------- *)

VARIABLES
    pc,                 \* position of each caller in Collect
    mutex,              \* e.mutex: the set of callers holding it
    totalScrapes,       \* e.totalScrapes
    jsonParseFailures,  \* e.jsonParseFailures
    wire,               \* the upstream's answer to each caller's GET, or NoResp
    up,                 \* scrape's first return value, per call
    result,             \* scrape's second return value: Nil or an APIData
    ch,                 \* the metrics the call has sent on ch
    descs,              \* the descriptors the last Describe sent
    calls,              \* Collect() invocations made
    gets,               \* upstream GETs issued
    decodeFailed,       \* answers whose body was read but does not decode
    faults,             \* panics that left Collect and were recovered by a caller
    crashed             \* the process was terminated by an unrecovered panic

vars == <<pc, mutex, totalScrapes, jsonParseFailures, wire, up, result, ch,
          descs, calls, gets, decodeFailed, faults, crashed>>

\* NewExporter: both counters created at 0, mutex unlocked; timeout is dropped.
Init ==
    /\ pc = [c \in Callers |-> "idle"]
    /\ mutex = {}
    /\ totalScrapes = 0
    /\ jsonParseFailures = 0
    /\ wire = [c \in Callers |-> NoResp]
    /\ up = [c \in Callers |-> 0]
    /\ result = [c \in Callers |-> Nil]
    /\ ch = [c \in Callers |-> <<>>]
    /\ descs = <<>>
    /\ calls = 0
    /\ gets = 0
    /\ decodeFailed = 0
    /\ faults = 0
    /\ crashed = FALSE

\* The caller's locals once a Collect invocation has ended.
ClearLocals(c) ==
    /\ wire' = [wire EXCEPT ![c] = NoResp]
    /\ up' = [up EXCEPT ![c] = 0]
    /\ result' = [result EXCEPT ![c] = Nil]
    /\ ch' = [ch EXCEPT ![c] = <<>>]

(* ------------------------------ Describe ------------------------------- *)

\* Describe: sends iqAirUp and the two counters' descriptors.
Describe ==
    /\ ~crashed
    /\ descs' = <<iqAirUp, totalScrapesDesc, jsonParseFailuresDesc>>
    /\ UNCHANGED <<pc, mutex, totalScrapes, jsonParseFailures, wire, up, result,
                   ch, calls, gets, decodeFailed, faults, crashed>>

(* ------------------------------ Collect -------------------------------- *)

\* A caller invokes Collect().
CollectCall(c) ==
    /\ ~crashed
    /\ pc[c] = "idle"
    /\ calls < MaxCollects
    /\ calls' = calls + 1
    /\ pc' = [pc EXCEPT ![c] = "lock"]
    /\ UNCHANGED <<mutex, totalScrapes, jsonParseFailures, wire, up, result, ch,
                   descs, gets, decodeFailed, faults, crashed>>

\* e.mutex.RLock() in place of Lock(): readers do not exclude one another.
LockShared(c) ==
    /\ ~crashed
    /\ pc[c] = "lock"
    /\ mutex' = mutex \cup {c}
    /\ pc' = [pc EXCEPT ![c] = "scrape"]
    /\ UNCHANGED <<totalScrapes, jsonParseFailures, wire, up, result, ch, descs,
                   calls, gets, decodeFailed, faults, crashed>>

\* e.mutex.Lock(): blocks until nobody holds the mutex.
Lock(c) ==
    /\ ~crashed
    /\ pc[c] = "lock"
    /\ mutex = {}
    /\ mutex' = mutex \cup {c}
    /\ pc' = [pc EXCEPT ![c] = "scrape"]
    /\ UNCHANGED <<totalScrapes, jsonParseFailures, wire, up, result, ch, descs,
                   calls, gets, decodeFailed, faults, crashed>>

\* scrape without its e.totalScrapes.Inc().
ScrapeStartNoInc(c) ==
    /\ ~crashed
    /\ pc[c] = "scrape"
    /\ gets' = gets + 1
    /\ pc' = [pc EXCEPT ![c] = "get"]
    /\ UNCHANGED <<mutex, totalScrapes, jsonParseFailures, wire, up, result, ch,
                   descs, calls, decodeFailed, faults, crashed>>

\* scrape, up to the request: e.totalScrapes.Inc(), then http.Get(e.URI) is
\* issued on the default client.
ScrapeStart(c) ==
    /\ ~crashed
    /\ pc[c] = "scrape"
    /\ totalScrapes' = totalScrapes + 1
    /\ gets' = gets + 1
    /\ pc' = [pc EXCEPT ![c] = "get"]
    /\ UNCHANGED <<mutex, jsonParseFailures, wire, up, result, ch, descs, calls,
                   decodeFailed, faults, crashed>>

\* The upstream (or the network) answers the pending GET of caller c.
UpstreamAnswer(c) ==
    /\ ~crashed
    /\ pc[c] = "get"
    /\ wire[c] = NoResp
    /\ \E r \in Responses :
          /\ wire' = [wire EXCEPT ![c] = r]
          /\ decodeFailed' =
                IF r.kind = "resp" /\ ~r.readErr /\ Unmarshal(r.body).err
                THEN decodeFailed + 1 ELSE decodeFailed
    /\ UNCHANGED <<pc, mutex, totalScrapes, jsonParseFailures, up, result, ch,
                   descs, calls, gets, faults, crashed>>

\* The upstream accepts the GET of caller c and never answers it.  http.Get
\* runs on http.DefaultClient, whose Timeout is zero (none): the timeout given
\* to NewExporter is not passed on, so no step of the program ends the wait.
UpstreamSilent(c) ==
    /\ ~crashed
    /\ pc[c] = "get"
    /\ wire[c] = NoResp
    /\ wire' = [wire EXCEPT ![c] = Silent]
    /\ UNCHANGED <<pc, mutex, totalScrapes, jsonParseFailures, up, result, ch,
                   descs, calls, gets, decodeFailed, faults, crashed>>

\* scrape, from the return of http.Get to its own return: a transport error,
\* an unreadable body and a body that does not decode each return (0, nil);
\* the response's status code is not looked at, and no path touches
\* e.jsonParseFailures.
ScrapeReturn(c) ==
    /\ ~crashed
    /\ pc[c] = "get"
    /\ wire[c] \notin {NoResp, Silent}
    /\ LET r == wire[c]
           u == Unmarshal(r.body)
       IN  IF r.kind = "err" \/ r.readErr \/ u.err
           THEN /\ up' = [up EXCEPT ![c] = 0]
                /\ result' = [result EXCEPT ![c] = Nil]
           ELSE /\ up' = [up EXCEPT ![c] = 1]
                /\ result' = [result EXCEPT ![c] = u.val]
    /\ pc' = [pc EXCEPT ![c] = "publish"]
    /\ UNCHANGED <<mutex, totalScrapes, jsonParseFailures, wire, ch, descs, calls,
                   gets, decodeFailed, faults, crashed>>

\* The sends of Collect that need no Reading: the two counters and iqAirUp.
Header(u, ts, jpf) ==
    <<Metric(totalScrapesDesc, Int0(ts)),
      Metric(jsonParseFailuresDesc, Int0(jpf)),
      Metric(iqAirUp, Int0(u))>>

\* The five reading gauges, each float64(result.<field>).
Gauges(res) ==
    <<Metric(iqAirCO2, Float64OfInt(res.CO2)),
      Metric(iqAirP25, Float64OfInt(res.P25)),
      Metric(iqAirP10, Float64OfInt(res.P10)),
      Metric(iqAirTemp, res.Temperature),
      Metric(iqAirHumidity, Float64OfInt(res.Humidity))>>

\* The publishing step of Collect.  result.CO2 on a nil result is a nil
\* pointer dereference: the fourth send panics and nothing more is sent.
Publish(c) ==
    /\ ~crashed
    /\ pc[c] = "publish"
    /\ IF result[c] = Nil
       THEN /\ ch' = [ch EXCEPT ![c] = Header(up[c], totalScrapes, jsonParseFailures)]
            /\ pc' = [pc EXCEPT ![c] = "panic"]
       ELSE /\ ch' = [ch EXCEPT ![c] =
                        Header(up[c], totalScrapes, jsonParseFailures) \o Gauges(result[c])]
            /\ pc' = [pc EXCEPT ![c] = "return"]
    /\ UNCHANGED <<mutex, totalScrapes, jsonParseFailures, wire, up, result, descs,
                   calls, gets, decodeFailed, faults, crashed>>

\* Collect returns normally; its deferred e.mutex.Unlock() runs.
CollectReturn(c) ==
    /\ ~crashed
    /\ pc[c] = "return"
    /\ mutex' = mutex \ {c}
    /\ pc' = [pc EXCEPT ![c] = "idle"]
    /\ ClearLocals(c)
    /\ UNCHANGED <<totalScrapes, jsonParseFailures, descs, calls, gets,
                   decodeFailed, faults, crashed>>

\* Collect with e.mutex.Unlock() as its last statement instead of deferred: a
\* panic skips it.
CollectPanicNoUnlock(c) ==
    /\ ~crashed
    /\ pc[c] = "panic"
    /\ pc' = [pc EXCEPT ![c] = "idle"]
    /\ ClearLocals(c)
    /\ \/ faults' = faults + 1 /\ UNCHANGED crashed
       \/ crashed' = TRUE /\ UNCHANGED faults
    /\ UNCHANGED <<mutex, totalScrapes, jsonParseFailures, descs, calls, gets,
                   decodeFailed>>

\* Collect panics: the deferred e.mutex.Unlock() runs while the stack unwinds
\* and the panic leaves Collect.  A caller that recovers carries on; in a
\* goroutine without a recover (the registry's collector workers behind
\* promhttp.Handler) the runtime terminates the process.
CollectPanic(c) ==
    /\ ~crashed
    /\ pc[c] = "panic"
    /\ mutex' = mutex \ {c}
    /\ pc' = [pc EXCEPT ![c] = "idle"]
    /\ ClearLocals(c)
    /\ \/ faults' = faults + 1 /\ UNCHANGED crashed
       \/ crashed' = TRUE /\ UNCHANGED faults
    /\ UNCHANGED <<totalScrapes, jsonParseFailures, descs, calls, gets,
                   decodeFailed>>

Next ==
    \/ Describe
    \/ \E c \in Callers :
          \/ CollectCall(c)
          \/ Lock(c)
          \/ ScrapeStart(c)
          \/ UpstreamAnswer(c)
          \/ UpstreamSilent(c)
          \/ ScrapeReturn(c)
          \/ Publish(c)
          \/ CollectReturn(c)
          \/ CollectPanic(c)

Spec == Init /\ [][Next]_vars

\* The Go scheduler runs every runnable goroutine, and sync.RWMutex hands the
\* lock to a waiter once it is free.  Of the upstream only this is assumed:
\* it settles on an answer or on staying silent.
Fairness ==
    \A c \in Callers :
        /\ WF_vars(UpstreamAnswer(c) \/ UpstreamSilent(c))
        /\ WF_vars(Lock(c))
        /\ WF_vars(ScrapeStart(c))
        /\ WF_vars(ScrapeReturn(c))
        /\ WF_vars(Publish(c))
        /\ WF_vars(CollectReturn(c))
        /\ WF_vars(CollectPanic(c))

FairSpec == Init /\ [][Next]_vars /\ Fairness

(* ----------------------- vocabulary of the claims ---------------------- *)

\* Positions at which a caller is inside the fetch+parse+publish sequence.
InSequence == {"scrape", "get", "publish", "return", "panic"}

\* Positions at which a Collect invocation has finished publishing (or has
\* aborted it) and has not yet left Collect.
Finished == {"return", "panic"}

Emits(c, name, value) == \E i \in DOMAIN ch[c] : ch[c][i] = Metric(name, value)

EmittedNames(c) == {ch[c][i].name : i \in DOMAIN ch[c]}

ReadingNames == {iqAirCO2, iqAirP25, iqAirP10, iqAirTemp, iqAirHumidity}

AllNames == {iqAirUp, totalScrapesDesc, jsonParseFailuresDesc} \cup ReadingNames

\* The body of response r was retrieved.
BodyRead(r) == r.kind = "resp" /\ ~r.readErr

\* The value under key of the `current` value cur, Absent when there is none.
Field(cur, key) == IF cur.k = "object" THEN cur[key] ELSE Absent

IsNumber(j) == j.k \in {"int", "frac", "big", "over"}

\* What a field is to be published as: itself, or 0 when it is missing.
Expected(j) == IF IsNumber(j) THEN j ELSE Zero

\* Call c emitted the five gauges with the values of the fields of cur.
EmitsReadingOf(c, cur) ==
    /\ Emits(c, iqAirCO2, Expected(Field(cur, "co")))
    /\ Emits(c, iqAirP25, Expected(Field(cur, "p2")))
    /\ Emits(c, iqAirP10, Expected(Field(cur, "p1")))
    /\ Emits(c, iqAirTemp, Expected(Field(cur, "tp")))
    /\ Emits(c, iqAirHumidity, Expected(Field(cur, "hm")))

EmitsZeroReading(c) == \A n \in ReadingNames : Emits(c, n, Zero)

\* cur is missing, null, or an object whose fields, where present, are null
\* or of the type of the Go field: an integer below 2^53 for co, p2, p1 and
\* hm, an integer or a decimal for tp.
WellTyped(cur) ==
    /\ cur.k \in {"absent", "null", "object"}
    /\ \A key \in {"co", "p2", "p1", "hm"} :
          Field(cur, key).k \in {"absent", "null", "int"}
    /\ Field(cur, "tp").k \in {"absent", "null", "int", "frac"}

(* ------------------------------- claims -------------------------------- *)

\* C1: at most one caller is inside the fetch+parse+publish sequence at any
\* time, it is the holder of the mutex, at most one GET is in flight, and
\* every invocation that got past the lock has issued exactly one GET (so K
\* invocations that have all got past it caused exactly K GETs).
C1_OneScrapeAtATime ==
    /\ Cardinality({c \in Callers : pc[c] \in InSequence}) <= 1
    /\ Cardinality({c \in Callers : pc[c] = "get"}) <= 1
    /\ \A c \in Callers : pc[c] \in InSequence => mutex = {c}
    /\ gets = calls - Cardinality({c \in Callers : pc[c] \in {"lock", "scrape"}})

\* A second GET is in flight while another caller waits for the lock.
C1_Witness ==
    \E c, d \in Callers : pc[c] = "get" /\ pc[d] = "lock" /\ gets = 2

\* C2: no fault leaves Collect and the process is never terminated by a
\* scrape failure.
C2_CollectNeverFaults ==
    /\ faults = 0
    /\ ~crashed
    /\ \A c \in Callers : pc[c] # "panic"

\* C3: a Collect whose scrape failed emits all eight metrics, with up = 0 and
\* the five reading gauges 0.
C3_FailedScrapeEmitsAll ==
    \A c \in Callers :
        pc[c] \in Finished /\ up[c] = 0 =>
            /\ EmittedNames(c) = AllNames
            /\ Emits(c, iqAirUp, Zero)
            /\ EmitsZeroReading(c)

\* C4: jsonParseFailures equals the number of scrapes whose body was
\* retrieved but failed to decode (answers scrape has not yet looked at do
\* not count).
C4_ParseFailuresCounted ==
    jsonParseFailures =
        decodeFailed
        - Cardinality({c \in Callers :
                         /\ pc[c] = "get"
                         /\ wire[c] # NoResp
                         /\ BodyRead(wire[c])
                         /\ Unmarshal(wire[c].body).err})

\* C5: totalScrapes equals the number of scrape attempts started, that is the
\* invocations made less those still before the increment; and while no
\* answer failed to decode jsonParseFailures is 0.
C5_TotalScrapesCountsAttempts ==
    /\ totalScrapes =
          calls - Cardinality({c \in Callers : pc[c] \in {"lock", "scrape"}})
    /\ decodeFailed = 0 => jsonParseFailures = 0

\* Two invocations have ended, one of them by a fault, and both were counted.
C5_Witness ==
    /\ \A c \in Callers : pc[c] = "idle"
    /\ calls = 2
    /\ faults = 1
    /\ totalScrapes = 2

\* C6: up = 1 is emitted only for a 2xx response whose body decoded; for any
\* other response up is 0 and every reading gauge emitted is 0.
C6_UpOnlyOn2xx ==
    \A c \in Callers :
        pc[c] \in Finished =>
            LET r == wire[c]
                ok == /\ BodyRead(r)
                      /\ r.status \in 200 .. 299
                      /\ ~Unmarshal(r.body).err
            IN  /\ Emits(c, iqAirUp, Int0(1)) => ok
                /\ ~ok => /\ Emits(c, iqAirUp, Zero)
                           /\ \A i \in DOMAIN ch[c] :
                                 ch[c][i].name \in ReadingNames => ch[c][i].value = Zero

\* C7: Describe declares all eight metrics, so that every metric a Collect
\* emits is a declared one.
C7_DescribeDeclaresAll ==
    descs # <<>> =>
        /\ {descs[i] : i \in DOMAIN descs} = AllNames
        /\ \A c \in Callers : EmittedNames(c) \subseteq {descs[i] : i \in DOMAIN descs}

C9_EveryGetReturns ==
    \A c \in Callers :
        /\ (pc[c] = "get") ~> (pc[c] # "get")
        /\ (pc[c] = "lock") ~> (pc[c] # "lock" \/ crashed)

\* C10: the mutex is held only by a caller inside Collect's sequence; when no
\* caller is inside it, whether the earlier ones returned or aborted, the
\* mutex is free.
C10_LockHeldOnlyInCollect ==
    /\ \A c \in mutex : pc[c] \in InSequence
    /\ (\A c \in Callers : pc[c] \notin InSequence) => mutex = {}

\* After a Collect aborted by a fault, a later Collect has taken the lock.
C10_Witness ==
    /\ faults >= 1
    /\ \E c \in Callers : pc[c] = "scrape" /\ mutex = {c}

====
